---- MODULE Spec2Model ----
(***************************************************************************)
(* Model of the ticket triage pipeline: the assignment engine              *)
(* (engineer_assignment.py), the classifier (ai_triage.py) and the         *)
(* dashboard sessions that drive them (triage_ai.py).                      *)
(*                                                                         *)
(* Python values of varying type (str / None / list) are tagged records    *)
(* [t, v].  Scores are exact rationals <<numerator, denominator>> with a   *)
(* positive denominator; weights are given in hundredths (60 = 0.6).       *)
(***************************************************************************)
EXTENDS Integers, Sequences, FiniteSets, TLC

(***************************************************************************)
(* Bounds of the model                                                     *)
(***************************************************************************)
MaxTickets == 2
MaxRuns == 2
MaxSessionCalls == 3
MaxRows == 5
MaxScriptRuns == 2
MaxWords == 2
MaxSaves == 2

(***************************************************************************)
(* Python values                                                           *)
(***************************************************************************)
PyNone == [t |-> "none", v |-> ""]
PyStr(s) == [t |-> "str", v |-> s]
PyList(l) == [t |-> "list", v |-> l]

\* Python truthiness of None / str / list; dict.get of an absent key is None
Truthy(x) ==
  CASE x.t = "none" -> FALSE
    [] x.t = "missing" -> FALSE
    [] x.t = "str" -> x.v # ""
    [] x.t = "list" -> Len(x.v) > 0

(***************************************************************************)
(* String primitives (str.lower, str.strip, str.split)                     *)
(***************************************************************************)
Ch(s, i) == SubSeq(s, i, i)

UpperChars == {"A", "B", "C", "D", "E", "F", "G", "H", "I", "J", "K", "L", "M",
               "N", "O", "P", "Q", "R", "S", "T", "U", "V", "W", "X", "Y", "Z"}

LowerOf ==
  [c \in UpperChars |->
     CASE c = "A" -> "a" [] c = "B" -> "b" [] c = "C" -> "c" [] c = "D" -> "d"
       [] c = "E" -> "e" [] c = "F" -> "f" [] c = "G" -> "g" [] c = "H" -> "h"
       [] c = "I" -> "i" [] c = "J" -> "j" [] c = "K" -> "k" [] c = "L" -> "l"
       [] c = "M" -> "m" [] c = "N" -> "n" [] c = "O" -> "o" [] c = "P" -> "p"
       [] c = "Q" -> "q" [] c = "R" -> "r" [] c = "S" -> "s" [] c = "T" -> "t"
       [] c = "U" -> "u" [] c = "V" -> "v" [] c = "W" -> "w" [] c = "X" -> "x"
       [] c = "Y" -> "y" [] c = "Z" -> "z"]

RECURSIVE Lower(_)
Lower(s) ==
  IF s = "" THEN ""
  ELSE (IF Ch(s, 1) \in UpperChars THEN LowerOf[Ch(s, 1)] ELSE Ch(s, 1))
         \o Lower(SubSeq(s, 2, Len(s)))

RECURSIVE LStrip(_, _)
LStrip(s, chars) ==
  IF s # "" /\ Ch(s, 1) \in chars THEN LStrip(SubSeq(s, 2, Len(s)), chars) ELSE s

RECURSIVE RStrip(_, _)
RStrip(s, chars) ==
  IF s # "" /\ Ch(s, Len(s)) \in chars THEN RStrip(SubSeq(s, 1, Len(s) - 1), chars) ELSE s

Whitespace == {" "}
Quotes == {"'", "\""}

\* s.strip()
Strip(s) == RStrip(LStrip(s, Whitespace), Whitespace)
\* s.strip("'\"")
StripQuotes(s) == RStrip(LStrip(s, Quotes), Quotes)

\* s.split(","): the pieces between commas, empty pieces included
RECURSIVE SplitFrom(_, _, _)
SplitFrom(s, start, i) ==
  IF i > Len(s) THEN <<SubSeq(s, start, Len(s))>>
  ELSE IF Ch(s, i) = "," THEN <<SubSeq(s, start, i - 1)>> \o SplitFrom(s, i + 1, i + 1)
  ELSE SplitFrom(s, start, i + 1)

Split(s) == SplitFrom(s, 1, 1)

\* kw in text
Contains(text, kw) ==
  \E i \in 1..(Len(text) - Len(kw) + 1) : SubSeq(text, i, i + Len(kw) - 1) = kw

Range(f) == {f[i] : i \in DOMAIN f}

(***************************************************************************)
(* The roster: engineers as configured (config "engineers" list)           *)
(***************************************************************************)
Engineer(n, sk, av, mx) == [name |-> n, skills |-> sk, availability |-> av, max_workload |-> mx]

\* S4/S5: two available engineers with capacity 1 and different skills
RosterPair ==
  << Engineer("A", <<"Network", "Security">>, PyStr("available"), 1),
     Engineer("B", <<"Database", "Backend">>, PyStr("available"), 1) >>
\* one engineer available (written in capitals), the others away
RosterMixed ==
  << Engineer("A", <<"Network", "Security">>, PyStr("busy"), 2),
     Engineer("B", <<" database ", "Backend">>, PyStr("Available"), 1),
     Engineer("C", <<"Frontend">>, PyStr("on leave"), 1) >>
\* nobody available
RosterAway ==
  << Engineer("A", <<"Network">>, PyStr("busy"), 1),
     Engineer("B", <<"Database", "Backend">>, PyStr("on leave"), 2) >>
\* "availability": null in the configuration
RosterNullAvail ==
  << Engineer("A", <<"Network", "Security">>, PyStr("available"), 1),
     Engineer("B", <<"Database">>, PyNone, 1) >>

Rosters == {<<>>, RosterPair, RosterMixed, RosterAway, RosterNullAvail}

Names(engs) == {engs[i].name : i \in DOMAIN engs}

(***************************************************************************)
(* Exact rationals <<n, d>>, d > 0                                         *)
(***************************************************************************)
RatGT(a, b) == a[1] * b[2] > b[1] * a[2]
RatIsZero(a) == a[1] = 0

(***************************************************************************)
(* Scores (engineer_assignment.py)                                         *)
(***************************************************************************)
\* the normalised set of required skill tokens
RequiredSkillsSet(required_skills) ==
  IF required_skills.t = "list"
  THEN {Lower(Strip(x)) : x \in {y \in Range(required_skills.v) : y # ""}}
  ELSE LET s0 == Strip(required_skills.v)
           s == IF Len(s0) >= 1 /\ Ch(s0, 1) = "[" /\ Ch(s0, Len(s0)) = "]"
                THEN SubSeq(s0, 2, Len(s0) - 1) ELSE s0
           pieces == Split(s)
           parts == {StripQuotes(Strip(p)) : p \in {q \in Range(pieces) : Strip(q) # ""}}
       IN {Lower(p) : p \in {q \in parts : q # ""}}

\* the second neutral test missing: an empty token set scores 0
calculate_skill_match_score_NoNeutral(engineer, required_skills) ==
  IF ~Truthy(required_skills) THEN <<1, 2>>
  ELSE LET engineer_skills == {Lower(Strip(sk)) : sk \in Range(engineer.skills)}
           required_skills_set == RequiredSkillsSet(required_skills)
       IN IF required_skills_set = {} THEN <<0, 1>>
          ELSE <<Cardinality(engineer_skills \cap required_skills_set),
                 Cardinality(required_skills_set)>>

calculate_skill_match_score(engineer, required_skills) ==
  IF ~Truthy(required_skills) THEN <<1, 2>>
  ELSE LET engineer_skills == {Lower(Strip(sk)) : sk \in Range(engineer.skills)}
           required_skills_set == RequiredSkillsSet(required_skills)
       IN IF required_skills_set = {} THEN <<1, 2>>
          ELSE <<Cardinality(engineer_skills \cap required_skills_set),
                 Cardinality(required_skills_set)>>

calculate_workload_score(engineer, wl) ==
  LET current_workload == wl[engineer.name]
      max_workload == engineer.max_workload
  IN IF current_workload >= max_workload THEN <<0, 1>>
     ELSE <<max_workload - current_workload, max_workload>>

\* None.lower() raises AttributeError
AvailabilityRaises(engineer) == engineer.availability.t # "str"

get_availability_score(engineer) ==
  IF Lower(engineer.availability.v) = "available" THEN 1 ELSE 0

\* skill*skill_weight + workload*workload_weight, weights in hundredths;
\* 0.1 + workload*workload_weight when the skill score is 0.0
CombinedScore(skill_score, workload_score, skill_weight, workload_weight) ==
  IF RatIsZero(skill_score)
  THEN <<10 * workload_score[2] + workload_score[1] * workload_weight,
         100 * workload_score[2]>>
  ELSE <<skill_score[1] * skill_weight * workload_score[2]
           + workload_score[1] * workload_weight * skill_score[2],
         100 * skill_score[2] * workload_score[2]>>

\* the capacity test dropped from the filter
SkipsCandidate_IgnoresCapacity(availability_score, workload_score, allow_overflow) ==
  availability_score = 0

\* the overflow mode ignored by the filter
SkipsCandidate_IgnoresOverflow(availability_score, workload_score, allow_overflow) ==
  \/ availability_score = 0
  \/ RatIsZero(workload_score)

\* the availability test dropped from the filter
SkipsCandidate_IgnoresAvailability(availability_score, workload_score, allow_overflow) ==
  RatIsZero(workload_score) /\ ~allow_overflow

\* the two "continue" tests of the scoring loop
SkipsCandidate(availability_score, workload_score, allow_overflow) ==
  \/ availability_score = 0
  \/ RatIsZero(workload_score) /\ ~allow_overflow

NoEngineer == "<None>"

\* the scoring loop: the first engineer with the strictly largest combined score
RECURSIVE ScoringLoop(_, _, _, _, _, _, _, _)
ScoringLoop(engs, wl, required_skills, skill_weight, workload_weight, allow_overflow, i, best) ==
  IF i > Len(engs) THEN best.engineer
  ELSE LET engineer == engs[i]
           skill_score == calculate_skill_match_score(engineer, required_skills)
           workload_score == calculate_workload_score(engineer, wl)
           availability_score == get_availability_score(engineer)
           combined_score == CombinedScore(skill_score, workload_score, skill_weight, workload_weight)
           next == IF ~SkipsCandidate(availability_score, workload_score, allow_overflow)
                      /\ RatGT(combined_score, best.score)
                   THEN [engineer |-> engineer.name, score |-> combined_score]
                   ELSE best
       IN ScoringLoop(engs, wl, required_skills, skill_weight, workload_weight, allow_overflow, i + 1, next)

\* the least-loaded candidate, first seen on ties
RECURSIVE LeastLoaded(_, _, _, _, _)
LeastLoaded(candidates, wl, i, min_load, chosen) ==
  IF i > Len(candidates) THEN chosen
  ELSE LET name == candidates[i].name
           load == wl[name]
       IN IF chosen = NoEngineer \/ load < min_load
          THEN LeastLoaded(candidates, wl, i + 1, load, name)
          ELSE LeastLoaded(candidates, wl, i + 1, min_load, chosen)

\* the fallback missing: nobody is chosen when the scoring loop finds nobody
FallbackChoice_ReturnsNone(engs, wl) == NoEngineer

\* the fallback taking the whole roster, available or not
FallbackChoice_IgnoresAvailability(engs, wl) == LeastLoaded(engs, wl, 1, 0, NoEngineer)

FallbackChoice(engs, wl) ==
  LET available_candidates == SelectSeq(engs, LAMBDA e : get_availability_score(e) = 1)
      candidates == IF Len(available_candidates) > 0 THEN available_candidates ELSE engs
  IN LeastLoaded(candidates, wl, 1, 0, NoEngineer)

\* find_best_engineer without its logging side effect: the engineer returned
\* and whether the fallback branch produced it
find_best_engineer(engs, wl, ticket, skill_weight, workload_weight, allow_overflow) ==
  LET best_engineer == ScoringLoop(engs, wl, ticket.ai_skills, skill_weight, workload_weight,
                                   allow_overflow, 1, [engineer |-> NoEngineer, score |-> <<-1, 1>>])
  IN IF best_engineer = NoEngineer
     THEN [engineer |-> FallbackChoice(engs, wl), is_fallback |-> TRUE]
     ELSE [engineer |-> best_engineer, is_fallback |-> FALSE]


(***************************************************************************)
(* Tickets                                                                 *)
(***************************************************************************)
Missing == "<missing>"

Ticket(num, k, pri, sk) ==
  [uid |-> 0, number |-> num, key |-> k, ai_priority |-> pri, ai_skills |-> sk,
   assigned_engineer |-> Missing]

\* enriched tickets as the classifier leaves them, and two malformed ones
TicketPool ==
  { Ticket(PyStr("INC10001"), PyNone, PyStr("High"), PyStr("Network, Security")),
    Ticket(PyNone, PyStr("PROJ-1000"), PyStr("Low"), PyStr("Database, Backend")),
    Ticket(PyStr("INC10002"), PyNone, PyStr("Medium"), PyStr("")),
    Ticket(PyNone, PyNone, PyStr("Urgent"), PyNone) }

RECURSIVE SeqsUpTo(_, _)
SeqsUpTo(S, n) ==
  IF n = 0 THEN {<<>>}
  ELSE LET shorter == SeqsUpTo(S, n - 1)
       IN shorter \cup {Append(q, x) : q \in {r \in shorter : Len(r) = n - 1}, x \in S}

\* a fresh batch: every ticket is its own object (uid)
FreshBatches ==
  {[i \in DOMAIN q |-> [q[i] EXCEPT !.uid = i]] : q \in SeqsUpTo(TicketPool, MaxTickets)}

\* ticket.get("number") or ticket.get("key") or "Unknown"
TicketId(ticket) ==
  IF Truthy(ticket.number) THEN ticket.number.v
  ELSE IF Truthy(ticket.key) THEN ticket.key.v
  ELSE "Unknown"

\* the priority order turned round: Low first, High last
PriorityRank_LowFirst(ticket) ==
  IF ticket.ai_priority.t # "str" THEN 1
  ELSE CASE ticket.ai_priority.v = "High" -> 2
         [] ticket.ai_priority.v = "Medium" -> 1
         [] ticket.ai_priority.v = "Low" -> 0
         [] OTHER -> 1

\* priority_order.get(t.get("ai_priority", "Medium"), 1)
PriorityRank(ticket) ==
  IF ticket.ai_priority.t # "str" THEN 1
  ELSE CASE ticket.ai_priority.v = "High" -> 0
         [] ticket.ai_priority.v = "Medium" -> 1
         [] ticket.ai_priority.v = "Low" -> 2
         [] OTHER -> 1

Indexes(q) == [i \in DOMAIN q |-> i]

\* no sorting: the tickets are taken in input order
SortedOrder_InputOrder(tix) == Indexes(tix)

\* sorted(tickets, key=...): the positions of the input in stable sorted order
SortedOrder(tix) ==
  LET idx == Indexes(tix)
  IN SelectSeq(idx, LAMBDA i : PriorityRank(tix[i]) = 0)
       \o SelectSeq(idx, LAMBDA i : PriorityRank(tix[i]) = 1)
       \o SelectSeq(idx, LAMBDA i : PriorityRank(tix[i]) = 2)

\* weights in hundredths: the defaults, workload only, and a negative pair
Weights == {<<60, 40>>, <<0, 100>>, <<-200, 0>>}

\* the weights and overflow mode a caller works with
Settings ==
  {[skill_weight |-> w[1], workload_weight |-> w[2], allow_overflow |-> o] :
     w \in Weights, o \in BOOLEAN}

(***************************************************************************)
(* State                                                                   *)
(***************************************************************************)
VARIABLES
  engineers,          \* EngineerAssignmentEngine.engineers
  workload,           \* EngineerAssignmentEngine.workload
  current_ticket_id,  \* EngineerAssignmentEngine.current_ticket_id
  auditLog,           \* rows of data/reassign_log.parquet
  settings,           \* skill_weight, workload_weight, allow_overflow passed by the callers
  pc,                 \* per caller: idle / assigning / returned / raised
  tickets,            \* per caller: the ticket list passed to assign_tickets
  order,              \* per caller: sorted_tickets, as positions of tickets
  pos,                \* per caller: position of the for loop in sorted_tickets
  params,             \* per caller: arguments of the running assign_tickets
  hist,               \* per caller: what each assign_ticket of this call did
  out,                \* per caller: the list the last call returned
  results,            \* per caller: outcome of every call that returned
  runs,               \* per caller: number of assign_tickets calls made
  openai_available,   \* AITriageAgent.openai_available
  raw,                \* the ticket list passed to batch_triage
  tpos,               \* position of the for loop of batch_triage
  tpc,                \* batch_triage: idle / triaging / returned / raised
  thist,              \* what each triage_ticket call of this batch_triage did
  cfg,                \* config: which source adapters are enabled
  fetchlog,           \* what the adapters did in the last fetch_tickets_from_apis
  raw_tickets,        \* main: the list fetch_tickets_from_apis returned
  session,            \* st.session_state: 'tickets' and 'refresh'
  files,              \* ticket batches written by save_tickets
  actions,            \* entries of logs/triage_actions.log
  opc,                \* position of the script run of main
  scriptRuns,         \* script runs of main that reached the processing block
  fin,                \* arguments of the function under evaluation
  fout,               \* its result
  data,               \* DataStorage: the files of the data directory, by name
  clock,              \* DataStorage: the time, in seconds
  saved               \* DataStorage: the save_tickets calls that wrote a file

engineVars == <<engineers, workload, current_ticket_id, auditLog, settings, pc, tickets, order,
                pos, params, hist, out, results, runs>>
triageVars == <<openai_available, raw, tpos, tpc, thist>>

orchVars == <<cfg, fetchlog, raw_tickets, session, files, actions, opc, scriptRuns>>
funVars == <<fin, fout>>
storeVars == <<data, clock, saved>>

vars == <<engineVars, triageVars, orchVars, funVars, storeVars>>

\* what the engine's steps leave alone
NotEngine == <<triageVars, orchVars, funVars, storeVars>>
\* what the classifier's steps leave alone
NotTriage == <<engineVars, orchVars, funVars, storeVars>>

Sessions == {1, 2}

NoParams == [skill_weight |-> 60, workload_weight |-> 40, reset_workload |-> FALSE,
             allow_overflow |-> FALSE, before |-> <<>>]

\* {eng["name"]: 0 for eng in engineers}
ZeroWorkload(engs) == [n \in Names(engs) |-> 0]

\* an adapter that was not called
NotCalled == [called |-> FALSE, ok |-> FALSE, tickets |-> <<>>]

\* no script run of main under way
OrchIdle ==
  /\ cfg = [servicenow |-> FALSE, jira |-> FALSE]
  /\ fetchlog = [servicenow |-> NotCalled, jira |-> NotCalled, mock |-> FALSE]
  /\ raw_tickets = <<>>
  /\ session = [has_tickets |-> FALSE, tickets |-> <<>>, refresh |-> FALSE]
  /\ files = <<>>
  /\ actions = <<>>
  /\ opc = "idle"
  /\ scriptRuns = 0

\* no function under evaluation
FunIdle ==
  /\ fin = <<>>
  /\ fout = <<>>

\* an empty data directory
StoreIdle ==
  /\ data = <<>>
  /\ clock = 0
  /\ saved = <<>>

\* no classification under way
TriageIdle ==
  /\ openai_available = FALSE
  /\ raw = <<>>
  /\ tpos = 1
  /\ tpc = "idle"
  /\ thist = <<>>

Init ==
  /\ TriageIdle
  /\ OrchIdle
  /\ FunIdle
  /\ StoreIdle
  /\ engineers \in Rosters
  /\ workload = ZeroWorkload(engineers)
  /\ current_ticket_id = Missing
  /\ auditLog = <<>>
  /\ settings \in Settings
  /\ pc = [s \in Sessions |-> "idle"]
  /\ tickets = [s \in Sessions |-> <<>>]
  /\ order = [s \in Sessions |-> <<>>]
  /\ pos = [s \in Sessions |-> 1]
  /\ params = [s \in Sessions |-> NoParams]
  /\ hist = [s \in Sessions |-> <<>>]
  /\ out = [s \in Sessions |-> <<>>]
  /\ results = [s \in Sessions |-> <<>>]
  /\ runs = [s \in Sessions |-> 0]

(***************************************************************************)
(* assign_tickets                                                          *)
(***************************************************************************)
\* a reset that keeps the counters
reset_workload_Keeps(engs, wl) == wl

reset_workload(engs, wl) == ZeroWorkload(engs)

\* entry of assign_tickets: sort, optional reset, start of the loop
AssignTicketsEntry(s, input, skill_weight, workload_weight, reset, allow_overflow) ==
  /\ pc[s] \in {"idle", "returned", "raised"}
  /\ runs[s] < MaxRuns
  /\ runs' = [runs EXCEPT ![s] = @ + 1]
  /\ tickets' = [tickets EXCEPT ![s] = input]
  /\ order' = [order EXCEPT ![s] = SortedOrder(input)]
  /\ pos' = [pos EXCEPT ![s] = 1]
  /\ params' = [params EXCEPT ![s] =
                  [skill_weight |-> skill_weight, workload_weight |-> workload_weight,
                   reset_workload |-> reset, allow_overflow |-> allow_overflow,
                   before |-> workload]]
  /\ hist' = [hist EXCEPT ![s] = <<>>]
  /\ workload' = IF reset THEN reset_workload(engineers, workload) ELSE workload
  /\ pc' = [pc EXCEPT ![s] = "assigning"]
  /\ UNCHANGED <<engineers, current_ticket_id, auditLog, settings, out, results>>

AssignTicketsCall(s, input, skill_weight, workload_weight, reset, allow_overflow) ==
  /\ AssignTicketsEntry(s, input, skill_weight, workload_weight, reset, allow_overflow)
  /\ UNCHANGED NotEngine

\* the lists a caller passes: a new batch first; then the list the last call
\* returned, or, when that call raised, the list it was given (its tickets
\* mutated in place)
Inputs(s) ==
  IF runs[s] = 0 THEN FreshBatches
  ELSE IF pc[s] = "returned" THEN {out[s]} ELSE {tickets[s]}

\* the counter of the chosen engineer left alone
IncrementWorkload_Skipped(wl, name) == wl

\* every counter incremented, not only the chosen engineer's
IncrementWorkload_All(wl, name) == [n \in DOMAIN wl |-> wl[n] + 1]

\* self.workload[assigned_engineer] += 1
IncrementWorkload(wl, name) == [wl EXCEPT ![name] = @ + 1]

\* a row that does not say which ticket it is about
AuditRow_NoTicket(ticket_id, engineer, is_fallback, reason) ==
  [ticket_id |-> "Unknown", assigned_engineer |-> engineer, is_fallback |-> is_fallback,
   reason |-> reason]

\* the row log_assignment appends to the audit log (without its timestamp)
AuditRow(ticket_id, engineer, is_fallback, reason) ==
  [ticket_id |-> ticket_id, assigned_engineer |-> engineer, is_fallback |-> is_fallback,
   reason |-> reason]

\* one iteration of the loop: assign_ticket(ticket) up to its return
AssignTicketDone(s, k, r, logged) ==
  LET assigned == IF r.engineer # NoEngineer THEN r.engineer ELSE "Unassigned"
      wl2 == IF r.engineer # NoEngineer THEN IncrementWorkload(workload, r.engineer) ELSE workload
  IN /\ tickets' = [tickets EXCEPT ![s][k].assigned_engineer = assigned]
     /\ workload' = wl2
     /\ hist' = [hist EXCEPT ![s] = Append(@,
                   [uid |-> tickets[s][k].uid, ticket_id |-> TicketId(tickets[s][k]),
                    ai_priority |-> tickets[s][k].ai_priority,
                    engineer |-> r.engineer, is_fallback |-> r.is_fallback,
                    seen |-> workload,
                    after |-> IF r.engineer # NoEngineer THEN wl2[r.engineer] ELSE 0,
                    log |-> IF logged THEN Len(auditLog) + 1 ELSE 0])]
     /\ pos' = [pos EXCEPT ![s] = @ + 1]
     /\ UNCHANGED <<pc, out, results>>

AssignTicket(s) ==
  /\ pc[s] = "assigning"
  /\ pos[s] <= Len(order[s])
  /\ LET k == order[s][pos[s]]
         ticket == tickets[s][k]
         r == find_best_engineer(engineers, workload, ticket, params[s].skill_weight,
                                 params[s].workload_weight, params[s].allow_overflow)
     IN /\ current_ticket_id' = TicketId(ticket)
        /\ IF \E i \in DOMAIN engineers : AvailabilityRaises(engineers[i])
           THEN \* AttributeError out of get_availability_score
                /\ pc' = [pc EXCEPT ![s] = "raised"]
                /\ UNCHANGED <<workload, auditLog, tickets, hist, pos, out, results>>
           ELSE IF r.is_fallback
           THEN \/ \* log_assignment appends the row
                   /\ auditLog' = Append(auditLog,
                        AuditRow(TicketId(ticket), r.engineer, TRUE,
                                 "No suitable engineer found (fallback to least loaded)"))
                   /\ AssignTicketDone(s, k, r, TRUE)
                \/ \* log_assignment raises (read_parquet / to_parquet fails)
                   /\ pc' = [pc EXCEPT ![s] = "raised"]
                   /\ UNCHANGED <<workload, auditLog, tickets, hist, pos, out, results>>
           ELSE /\ UNCHANGED auditLog
                /\ AssignTicketDone(s, k, r, FALSE)
  /\ UNCHANGED <<engineers, settings, order, params, runs>>
  /\ UNCHANGED NotEngine

\* the loop is over: return assigned_tickets
AssignTicketsExit(s) ==
  /\ pc[s] = "assigning"
  /\ pos[s] > Len(order[s])
  /\ pc' = [pc EXCEPT ![s] = "returned"]
  /\ out' = [out EXCEPT ![s] = [j \in DOMAIN order[s] |-> tickets[s][order[s][j]]]]
  /\ results' = [results EXCEPT ![s] = Append(@,
                   [params |-> params[s],
                    assigned |-> {<<tickets[s][i].uid, tickets[s][i].assigned_engineer>> :
                                    i \in DOMAIN tickets[s]},
                    workload |-> workload])]
  /\ UNCHANGED <<engineers, workload, current_ticket_id, auditLog, settings, tickets, order,
                 pos, params, hist, runs>>

AssignTicketsReturn(s) ==
  /\ AssignTicketsExit(s)
  /\ UNCHANGED NotEngine

\* a single caller of the engine
Caller == 1

Next ==
  \/ \E input \in Inputs(Caller), reset \in BOOLEAN :
       AssignTicketsCall(Caller, input, settings.skill_weight, settings.workload_weight,
                         reset, settings.allow_overflow)
  \/ AssignTicket(Caller)
  \/ AssignTicketsReturn(Caller)

Spec == Init /\ [][Next]_vars


(***************************************************************************)
(* Properties of the assignment engine                                     *)
(***************************************************************************)
RECURSIVE SumOver(_, _)
SumOver(f, S) ==
  IF S = {} THEN 0
  ELSE LET x == CHOOSE y \in S : TRUE IN f[x] + SumOver(f, S \ {x})

\* sum(workload.values())
TotalWorkload(wl) == SumOver(wl, DOMAIN wl)

\* max_workload of the engineer called name
MaxWorkloadOf(name) ==
  LET i == CHOOSE j \in DOMAIN engineers : engineers[j].name = name
  IN engineers[i].max_workload

\* the tickets of the running (or last) call that assign_ticket has returned for
Processed(s) == {tickets[s][order[s][j]] : j \in 1..(pos[s] - 1)}

IsHigh(priority) == priority.t = "str" /\ priority.v = "High"

\* C1: every ticket assign_ticket has returned for carries the name of a roster
\* engineer when the roster is non-empty, and carries "Unassigned" exactly
\* when the roster is empty.
C1_AssignmentTotality ==
  \A s \in Sessions : \A t \in Processed(s) :
    /\ engineers # <<>> => t.assigned_engineer \in Names(engineers)
    /\ t.assigned_engineer = "Unassigned" <=> engineers = <<>>

C1_Witness ==
  \E s \in Sessions :
    /\ pc[s] = "returned" /\ engineers # <<>> /\ Len(hist[s]) = 2
    /\ \E i \in DOMAIN hist[s] : hist[s][i].is_fallback
    /\ \E i \in DOMAIN hist[s] : ~hist[s][i].is_fallback

\* C2 as stated: after a call with reset_workload=true has returned, the
\* counters sum to the number of tickets of the batch, for every roster.
C2_ConservationEveryRoster ==
  \A s \in Sessions :
    pc[s] = "returned" /\ params[s].reset_workload
      => TotalWorkload(workload) = Len(tickets[s])

\* C2 amended: after a call with reset_workload=true has returned, the
\* counters sum to the number of tickets of the batch when the roster is
\* non-empty, and to 0 when it is empty.
C2_WorkloadConservation ==
  \A s \in Sessions :
    pc[s] = "returned" /\ params[s].reset_workload
      => TotalWorkload(workload) = IF engineers # <<>> THEN Len(tickets[s]) ELSE 0

C2_Witness ==
  \E s \in Sessions :
    /\ pc[s] = "returned" /\ params[s].reset_workload /\ engineers # <<>>
    /\ Len(tickets[s]) = 2
    /\ TotalWorkload(params[s].before) > 0

\* C3: with allow_overflow=false an assignment of the scoring path leaves the
\* chosen engineer's counter at or below max_workload, and an assignment that
\* leaves it above went through the fallback and has its row in the audit log.
C3_CapacityRespect ==
  \A s \in Sessions : \A i \in DOMAIN hist[s] :
    LET h == hist[s][i] IN
      ~params[s].allow_overflow /\ h.engineer # NoEngineer =>
        /\ ~h.is_fallback => h.after <= MaxWorkloadOf(h.engineer)
        /\ h.after > MaxWorkloadOf(h.engineer) =>
             /\ h.is_fallback
             /\ h.log \in DOMAIN auditLog
             /\ auditLog[h.log].is_fallback
             /\ auditLog[h.log].assigned_engineer = h.engineer
             /\ auditLog[h.log].ticket_id = h.ticket_id

C3_Witness ==
  \E s \in Sessions :
    /\ ~params[s].allow_overflow /\ Len(hist[s]) = 2
    /\ ~hist[s][1].is_fallback
    /\ hist[s][1].after = MaxWorkloadOf(hist[s][1].engineer)
    /\ hist[s][2].is_fallback
    /\ hist[s][2].after > MaxWorkloadOf(hist[s][2].engineer)

\* C4: within one call, no counter seen by a High ticket at its assignment
\* is greater than the same counter seen by a ticket of another priority.
C4_PriorityOrdering ==
  \A s \in Sessions : \A i, j \in DOMAIN hist[s] :
    IsHigh(hist[s][i].ai_priority) /\ ~IsHigh(hist[s][j].ai_priority)
      => \A n \in Names(engineers) : hist[s][i].seen[n] <= hist[s][j].seen[n]

C4_Witness ==
  \E s \in Sessions :
    /\ pc[s] = "returned" /\ Len(tickets[s]) = 2
    /\ ~IsHigh(tickets[s][1].ai_priority) /\ IsHigh(tickets[s][2].ai_priority)
    /\ hist[s][1].uid = tickets[s][2].uid
    /\ hist[s][1].seen # hist[s][2].seen

\* C5: two returned calls with reset_workload=true on the same tickets with
\* the same weights and overflow mode give every ticket the same engineer and
\* end with the same workload map, whatever the counters were before.
C5_Determinism ==
  \A s \in Sessions : \A i, j \in DOMAIN results[s] :
    /\ results[s][i].params.reset_workload /\ results[s][j].params.reset_workload
    /\ results[s][i].params.skill_weight = results[s][j].params.skill_weight
    /\ results[s][i].params.workload_weight = results[s][j].params.workload_weight
    /\ results[s][i].params.allow_overflow = results[s][j].params.allow_overflow
    => /\ results[s][i].assigned = results[s][j].assigned
       /\ results[s][i].workload = results[s][j].workload

C5_Witness ==
  \E s \in Sessions :
    /\ Len(results[s]) = 2
    /\ results[s][1].params.reset_workload /\ results[s][2].params.reset_workload
    /\ results[s][1].params.before # results[s][2].params.before
    /\ Len(tickets[s]) = 2
    /\ \E n \in Names(engineers) : results[s][2].workload[n] = 2

\* C7: no call of assign_tickets ends by raising.
C7_AssignNeverRaises == \A s \in Sessions : pc[s] # "raised"

\* availability == "available", case-insensitive
IsAvailable(engineer) ==
  engineer.availability.t = "str" /\ Lower(engineer.availability.v) = "available"

\* roster positions of the engineers the fallback chooses among
FallbackPool ==
  IF \E i \in DOMAIN engineers : IsAvailable(engineers[i])
  THEN {i \in DOMAIN engineers : IsAvailable(engineers[i])}
  ELSE DOMAIN engineers

\* the ticket of caller s that carries uid
TicketByUid(s, uid) == CHOOSE t \in Range(tickets[s]) : t.uid = uid

\* C12: a fallback assignment goes to the engineer with the smallest counter
\* among the available engineers, or among the whole roster when nobody is
\* available, the first in roster order on ties, and the ticket carries that
\* engineer's name.
C12_FallbackLeastLoaded ==
  \A s \in Sessions : \A k \in DOMAIN hist[s] :
    LET h == hist[s][k] IN
      h.is_fallback /\ engineers # <<>> =>
        /\ \E i \in FallbackPool :
             /\ engineers[i].name = h.engineer
             /\ \A j \in FallbackPool :
                  /\ h.seen[engineers[j].name] >= h.seen[h.engineer]
                  /\ j < i => h.seen[engineers[j].name] > h.seen[h.engineer]
        /\ TicketByUid(s, h.uid).assigned_engineer = h.engineer

\* scenario S5 at its third ticket: A and B both at their maximum 1
C12_Witness ==
  \E s \in Sessions : \E k \in DOMAIN hist[s] :
    /\ engineers = RosterPair /\ ~params[s].allow_overflow
    /\ params[s].skill_weight = 60 /\ params[s].workload_weight = 40
    /\ hist[s][k].is_fallback
    /\ hist[s][k].seen["A"] = 1 /\ hist[s][k].seen["B"] = 1
    /\ hist[s][k].engineer = "A"
    /\ hist[s][k].log \in DOMAIN auditLog

\* C13: with allow_overflow=true, non-negative weights and an available
\* engineer, no assignment takes the fallback path and the audit log stays
\* empty, whatever the counters are.
C13_OverflowNeverFallsBack ==
  /\ settings.allow_overflow /\ settings.skill_weight >= 0 /\ settings.workload_weight >= 0
  /\ \E i \in DOMAIN engineers : IsAvailable(engineers[i])
  => /\ auditLog = <<>>
     /\ \A s \in Sessions : \A k \in DOMAIN hist[s] :
          ~hist[s][k].is_fallback /\ hist[s][k].log = 0

\* every available engineer is at or above max_workload and the scoring path
\* assigns all the same
C13_Witness ==
  \E s \in Sessions : \E k \in DOMAIN hist[s] :
    /\ params[s].allow_overflow
    /\ params[s].skill_weight >= 0 /\ params[s].workload_weight >= 0
    /\ \A i \in DOMAIN engineers :
         IsAvailable(engineers[i]) =>
           hist[s][k].seen[engineers[i].name] >= engineers[i].max_workload
    /\ hist[s][k].engineer # NoEngineer
    /\ ~hist[s][k].is_fallback

\* roster positions of the engineers that pass the candidate filter
PassingFilter(wl, allow_overflow) ==
  {i \in DOMAIN engineers :
     /\ IsAvailable(engineers[i])
     /\ allow_overflow \/ wl[engineers[i].name] < engineers[i].max_workload}

\* combined score of the engineer at roster position i
CombinedOf(i, wl, ticket, skill_weight, workload_weight) ==
  CombinedScore(calculate_skill_match_score(engineers[i], ticket.ai_skills),
                calculate_workload_score(engineers[i], wl), skill_weight, workload_weight)

\* C20: when some engineer passes the candidate filter, the ticket goes to the
\* filter-passing engineer with the largest combined score, the first in
\* roster order among equals.
C20_WinnerLargestCombined ==
  \A s \in Sessions : \A k \in DOMAIN hist[s] :
    LET h == hist[s][k]
        P == PassingFilter(h.seen, params[s].allow_overflow)
        c(i) == CombinedOf(i, h.seen, TicketByUid(s, h.uid), params[s].skill_weight,
                           params[s].workload_weight)
    IN P # {} =>
         \E i \in P :
           /\ engineers[i].name = h.engineer
           /\ \A j \in P : ~RatGT(c(j), c(i)) /\ (j < i => RatGT(c(i), c(j)))

\* the counters the running call of caller s started its loop with
StartCounters(s) ==
  IF params[s].reset_workload THEN ZeroWorkload(engineers) ELSE params[s].before

\* how many of the first k assignments of caller s went to the engineer name
AssignedBefore(s, k, name) ==
  Cardinality({j \in 1..(k - 1) : hist[s][j].engineer = name})

\* one assign_ticket call of caller s returns in this step
AssignTicketReturns(s) == pos'[s] = pos[s] + 1

\* what a returning assign_ticket call on a non-empty roster changes: the
\* assigned_engineer field of its ticket, and the counter of the engineer
\* named there, by one
AssignTicketEffect(s) ==
  LET k == order[s][pos[s]] IN
    \E n \in Names(engineers) :
      /\ tickets' = [tickets EXCEPT ![s][k].assigned_engineer = n]
      /\ workload' = [workload EXCEPT ![n] = @ + 1]
      /\ n = find_best_engineer(engineers, workload, tickets[s][k], params[s].skill_weight,
                                params[s].workload_weight, params[s].allow_overflow).engineer

\* C21: an assign_ticket call on a non-empty roster writes only its ticket's
\* assigned_engineer and adds one to exactly the chosen engineer's counter,
\* every other counter and ticket staying as it was; no counter decreases
\* while the loop of a batch runs; and each ticket is selected for on the
\* counters the batch started with plus one for every earlier ticket of the
\* batch that went to the engineer.
C21_AssignTicketFrame ==
  /\ [][\A s \in Sessions :
         /\ AssignTicketReturns(s) /\ engineers # <<>> => AssignTicketEffect(s)
         /\ pc[s] = "assigning" =>
              \A n \in Names(engineers) : workload'[n] >= workload[n]]_vars
  /\ [](\A s \in Sessions : \A k \in DOMAIN hist[s] : \A n \in Names(engineers) :
          hist[s][k].seen[n] = StartCounters(s)[n] + AssignedBefore(s, k, n))

\* a second call without reset: its second ticket is selected for on counters
\* that hold the first call's assignments and the one made just before
C21_Witness ==
  \E s \in Sessions :
    /\ runs[s] = 2 /\ ~params[s].reset_workload /\ Len(hist[s]) = 2
    /\ TotalWorkload(params[s].before) > 0
    /\ hist[s][1].engineer # NoEngineer
    /\ hist[s][2].seen # hist[s][1].seen
    /\ hist[s][2].engineer # hist[s][1].engineer

\* the rank of a priority value: High, then Medium with everything that is
\* neither High nor Low, then Low
RankHighFirst(priority) ==
  IF priority = PyStr("High") THEN 0 ELSE IF priority = PyStr("Low") THEN 2 ELSE 1

\* position in the input list of the ticket that carries uid
InputPosition(s, uid) == CHOOSE i \in DOMAIN tickets[s] : tickets[s][i].uid = uid

\* C22: the list assign_tickets returns holds every input ticket exactly
\* once, High tickets first, then Medium together with missing or unknown
\* priorities, then Low, tickets of equal rank in input order, and every
\* ticket has its assigned_engineer.
C22_StableSortByPriority ==
  \A s \in Sessions :
    pc[s] = "returned" =>
      /\ Len(out[s]) = Len(tickets[s])
      /\ \A i \in DOMAIN tickets[s] : \E j \in DOMAIN out[s] : out[s][j] = tickets[s][i]
      /\ \A i, j \in DOMAIN out[s] :
           i < j =>
             /\ out[s][i].uid # out[s][j].uid
             /\ RankHighFirst(out[s][i].ai_priority) <= RankHighFirst(out[s][j].ai_priority)
             /\ RankHighFirst(out[s][i].ai_priority) = RankHighFirst(out[s][j].ai_priority)
                  => InputPosition(s, out[s][i].uid) < InputPosition(s, out[s][j].uid)
      /\ \A j \in DOMAIN out[s] : out[s][j].assigned_engineer # Missing

\* a Low ticket ahead of one with the unknown priority "Urgent" in the input
C22_Witness ==
  \E s \in Sessions :
    /\ pc[s] = "returned" /\ runs[s] = 1 /\ Len(tickets[s]) = 2
    /\ tickets[s][1].ai_priority = PyStr("Low")
    /\ tickets[s][2].ai_priority = PyStr("Urgent")
    /\ out[s][1].uid = tickets[s][2].uid /\ out[s][2].uid = tickets[s][1].uid
    /\ out[s][1].assigned_engineer \in Names(engineers)

\* names of the engineers whose availability is "available"
AvailableNames == {engineers[i].name : i \in {j \in DOMAIN engineers : IsAvailable(engineers[j])}}

\* C23: whenever some engineer of the roster is available, every assignment,
\* through the scoring loop or through the fallback, names an available
\* engineer; an engineer who is not available gets a ticket only when nobody
\* is available.
C23_UnavailableOnlyAsLastResort ==
  AvailableNames # {} =>
    \A s \in Sessions :
      /\ \A k \in DOMAIN hist[s] : hist[s][k].engineer \in AvailableNames
      /\ \A t \in Processed(s) : t.assigned_engineer \in AvailableNames

\* the only available engineer, B, takes a ticket through the scoring loop
\* and, at capacity, the next through the fallback, although A (busy) has
\* the skills and room
C23_Witness ==
  \E s \in Sessions :
    /\ engineers = RosterMixed /\ Len(hist[s]) = 2
    /\ ~hist[s][1].is_fallback /\ hist[s][1].engineer = "B"
    /\ hist[s][2].is_fallback /\ hist[s][2].engineer = "B"
    /\ \E t \in Processed(s) : t.ai_skills = PyStr("Network, Security")
    /\ workload["A"] < MaxWorkloadOf("A")

\* what the assign_ticket call of caller s that returns in this step did
LastAssignment(s) == hist'[s][Len(hist'[s])]

\* the ticket the returning call was about, as the call leaves it
LastTicket(s) == tickets'[s][order[s][pos[s]]]

\* C28 as stated: an assignment through the fallback appends exactly one
\* audit row, with is_fallback true, the ticket's number or key as ticket_id
\* and the engineer the ticket was assigned to; an assignment through the
\* scoring loop appends none.
C28_AuditRowNumberOrKey ==
  [][\A s \in Sessions :
       AssignTicketReturns(s) /\ engineers # <<>> =>
         IF LastAssignment(s).is_fallback
         THEN /\ Len(auditLog') = Len(auditLog) + 1
              /\ SubSeq(auditLog', 1, Len(auditLog)) = auditLog
              /\ LET row == auditLog'[Len(auditLog')]
                      t == LastTicket(s)
                 IN /\ row.is_fallback
                    /\ \/ t.number.t = "str" /\ row.ticket_id = t.number.v
                       \/ t.key.t = "str" /\ row.ticket_id = t.key.v
                    /\ row.assigned_engineer = t.assigned_engineer
                    /\ row.assigned_engineer \in Names(engineers)
         ELSE auditLog' = auditLog]_vars

\* C28 amended: the same, the ticket_id being the ticket's number, else its
\* key, else "Unknown" when the ticket has neither.
C28_AuditRowPerFallback ==
  [][\A s \in Sessions :
       AssignTicketReturns(s) /\ engineers # <<>> =>
         IF LastAssignment(s).is_fallback
         THEN /\ Len(auditLog') = Len(auditLog) + 1
              /\ SubSeq(auditLog', 1, Len(auditLog)) = auditLog
              /\ LET row == auditLog'[Len(auditLog')]
                      t == LastTicket(s)
                 IN /\ row.is_fallback
                    /\ row.ticket_id =
                         (IF t.number.t = "str" /\ t.number.v # "" THEN t.number.v
                          ELSE IF t.key.t = "str" /\ t.key.v # "" THEN t.key.v
                          ELSE "Unknown")
                    /\ row.assigned_engineer = t.assigned_engineer
                    /\ row.assigned_engineer \in Names(engineers)
         ELSE auditLog' = auditLog]_vars

\* a batch whose first ticket is assigned by the scoring loop, without a
\* row, and whose second, the Jira issue PROJ-1000, by the fallback
C28_Witness ==
  \E s \in Sessions :
    /\ Len(hist[s]) = 2 /\ Len(auditLog) = 1
    /\ ~hist[s][1].is_fallback /\ hist[s][1].log = 0
    /\ hist[s][2].is_fallback /\ hist[s][2].log = 1
    /\ auditLog[1].ticket_id = "PROJ-1000"
    /\ auditLog[1].is_fallback
    /\ auditLog[1].assigned_engineer = hist[s][2].engineer
    /\ \E t \in Processed(s) : t.key = PyStr("PROJ-1000") /\ t.assigned_engineer = auditLog[1].assigned_engineer

\* sum of max_workload over the available engineers
AvailableCapacity ==
  LET capacity == [n \in AvailableNames |-> MaxWorkloadOf(n)]
  IN SumOver(capacity, AvailableNames)

\* assignments of the running (or last) call of caller s made by the scoring loop
NormalAssignments(s) == {k \in DOMAIN hist[s] : ~hist[s][k].is_fallback}

Min(a, b) == IF a <= b THEN a ELSE b

\* C29: without overflow, after a fallback assignment every later assignment
\* of the batch is a fallback assignment too; and a returned batch with
\* reset_workload has min(number of tickets, capacity of the available
\* engineers) assignments by the scoring loop.
C29_FallbackOnlyOnceCapacityIsUsed ==
  \A s \in Sessions :
    ~params[s].allow_overflow =>
      /\ \A i, j \in DOMAIN hist[s] :
           i < j /\ hist[s][i].is_fallback => hist[s][j].is_fallback
      /\ pc[s] = "returned" /\ params[s].reset_workload =>
           Cardinality(NormalAssignments(s)) = Min(Len(tickets[s]), AvailableCapacity)

\* roster position of the engineer called name
PositionOf(name) == CHOOSE i \in DOMAIN engineers : engineers[i].name = name

\* C30: with weights 0 <= skill_weight <= 1 and workload_weight =
\* 1 - skill_weight, the engineer the scoring loop selects has no rival among
\* the engineers passing the filter with the same workload score and a
\* higher skill score.
C30_HigherSkillWinsAtEqualWorkload ==
  \A s \in Sessions : \A k \in DOMAIN hist[s] :
    LET h == hist[s][k]
        skill_weight == params[s].skill_weight
        workload_weight == params[s].workload_weight
    IN /\ 0 <= skill_weight /\ skill_weight <= 100 /\ workload_weight = 100 - skill_weight
       /\ ~h.is_fallback /\ h.engineer # NoEngineer
       => LET ticket == TicketByUid(s, h.uid)
              skill(i) == calculate_skill_match_score(engineers[i], ticket.ai_skills)
              load(i) == calculate_workload_score(engineers[i], h.seen)
              w == PositionOf(h.engineer)
          IN \A j \in PassingFilter(h.seen, params[s].allow_overflow) :
               ~RatGT(load(j), load(w)) /\ ~RatGT(load(w), load(j))
                 => ~RatGT(skill(j), skill(w))


(***************************************************************************)
(* Dashboard sessions (triage_ai.py).  initialize_components is decorated  *)
(* with st.cache_resource, so every session's script run receives the same *)
(* EngineerAssignmentEngine; each session runs in its own thread.          *)
(***************************************************************************)
\* skill_pct / 100.0 and 1.0 - skill_w for the slider positions modelled
SliderSettings == {x \in Settings : x.skill_weight + x.workload_weight = 100}

\* the batches the sessions fetch: full batches headed by incident INC10001
FetchedBatches ==
  {b \in FreshBatches : Len(b) = MaxTickets /\ TicketId(b[1]) = "INC10001"}

InitSessions ==
  /\ Init
  /\ engineers \in {RosterPair, RosterMixed}
  /\ settings \in SliderSettings

\* assign_tickets calls made by all sessions together
SessionCalls == runs[1] + runs[2]

\* main: first run of a session, process_tickets on the fetched batch with
\* the default weights, no reset, no overflow
ProcessTickets(s) ==
  /\ runs[s] = 0
  /\ SessionCalls < MaxSessionCalls
  /\ \E input \in FetchedBatches : AssignTicketsCall(s, input, 60, 40, FALSE, FALSE)

\* main: the "Apply weights & reassign" button on the session's tickets
ApplyWeightsAndReassign(s) ==
  /\ pc[s] = "returned"
  /\ SessionCalls < MaxSessionCalls
  /\ out[s] # <<>>
  /\ AssignTicketsCall(s, out[s], settings.skill_weight, settings.workload_weight,
                       TRUE, settings.allow_overflow)

NextSessions ==
  \E s \in Sessions :
    \/ ProcessTickets(s)
    \/ ApplyWeightsAndReassign(s)
    \/ AssignTicket(s)
    \/ AssignTicketsReturn(s)

SpecSessions == InitSessions /\ [][NextSessions]_vars

\* C6: the counters a ticket of a batch sees are exactly the counters its
\* predecessor in the same batch left: no other batch touches the workload
\* map while a batch is being dispatched.
C6_BatchesNotInterleaved ==
  \A s \in Sessions : \A i \in 2..Len(hist[s]) : \A n \in Names(engineers) :
    hist[s][i].seen[n] =
      hist[s][i - 1].seen[n] + (IF hist[s][i - 1].engineer = n THEN 1 ELSE 0)


(***************************************************************************)
(* The assignment diagnostics panel of main (triage_ai.py), shown for one  *)
(* of the session's processed tickets                                      *)
(***************************************************************************)
\* round(x, 3), in thousandths
Round3(x) == (2000 * x[1] + x[2]) \div (2 * x[2])

\* positions of the "Skill weight (%)" slider
SliderPositions == {0, 60, 100}

\* the rows of the report, in roster order
DiagnosticRows(engs, wl, ticket, skill_pct) ==
  [i \in DOMAIN engs |->
     LET skill_score == calculate_skill_match_score(engs[i], ticket.ai_skills)
         workload_score == calculate_workload_score(engs[i], wl)
         availability_score == get_availability_score(engs[i])
         workload_pct == 100 - skill_pct
     IN [engineer |-> engs[i].name,
         skill_score |-> Round3(skill_score),
         workload_score |-> Round3(workload_score),
         availability |-> IF availability_score = 1 THEN "available" ELSE "unavailable",
         combined_score |-> Round3(CombinedScore(skill_score, workload_score,
                                                 skill_pct, workload_pct))]]

\* sort_values('combined_score', ascending=False).iloc[0]: a row with the
\* largest combined_score; which one among equal rows is the sort's affair
TopRows(rows) ==
  {i \in DOMAIN rows : \A j \in DOMAIN rows : rows[j].combined_score <= rows[i].combined_score}

InitDiagnostics ==
  /\ Init
  /\ engineers \in {RosterPair, RosterMixed, RosterAway}
  /\ settings = [skill_weight |-> 60, workload_weight |-> 40, allow_overflow |-> FALSE]

\* a script run with "Show assignment diagnostics" ticked: the report for
\* the selected ticket and the "Top suggestion" of the rationale
ShowDiagnostics ==
  /\ pc[Caller] = "returned"
  /\ out[Caller] # <<>>
  /\ \E sel \in DOMAIN out[Caller], skill_pct \in SliderPositions :
       LET rows == DiagnosticRows(engineers, workload, out[Caller][sel], skill_pct)
       IN \E top \in TopRows(rows) :
            /\ fin' = [ticket |-> out[Caller][sel], skill_pct |-> skill_pct,
                       workload |-> workload]
            /\ fout' = [rows |-> rows, best |-> rows[top].engineer]
  /\ UNCHANGED <<engineVars, triageVars, orchVars, storeVars>>

NextDiagnostics ==
  \/ \E input \in Inputs(Caller) :
       AssignTicketsCall(Caller, input, 60, 40, FALSE, FALSE)
  \/ AssignTicket(Caller)
  \/ AssignTicketsReturn(Caller)
  \/ ShowDiagnostics

SpecDiagnostics == InitDiagnostics /\ [][NextDiagnostics]_vars

\* C26: every row of the report carries the combined score find_best_engineer
\* computes for that engineer on the same ticket, weights and counters,
\* rounded to three decimals, and the first row names the engineer
\* find_best_engineer selects there, with or without overflow.
C26_DiagnosticsMatchDecision ==
  fout # <<>> =>
    LET skill_w == fin.skill_pct
        workload_w == 100 - fin.skill_pct
    IN /\ \A i \in DOMAIN engineers :
            /\ fout.rows[i].engineer = engineers[i].name
            /\ fout.rows[i].combined_score
                 = Round3(CombinedOf(i, fin.workload, fin.ticket, skill_w, workload_w))
       /\ \E allow_overflow \in BOOLEAN :
            fout.best = find_best_engineer(engineers, fin.workload, fin.ticket, skill_w,
                                           workload_w, allow_overflow).engineer


(***************************************************************************)
(* The classifier (ai_triage.py)                                           *)
(***************************************************************************)
\* a key the dict does not hold
PyMissing == [t |-> "missing", v |-> ""]

\* dict.get(key, default)
Get(field, default) == IF field.t = "missing" THEN default ELSE field

\* how an f-string renders a value
Format(x) == IF x.t = "none" THEN "None" ELSE x.v

CATEGORIES ==
  <<"Network", "Database", "DevOps", "Security", "Frontend", "Backend", "Access", "Other">>

CATEGORY_SKILLS ==
  [c \in Range(CATEGORIES) |->
     CASE c = "Network" -> <<"Network", "Security">>
       [] c = "Database" -> <<"Database", "Backend">>
       [] c = "DevOps" -> <<"DevOps", "Backend">>
       [] c = "Security" -> <<"Security", "Network">>
       [] c = "Frontend" -> <<"Frontend">>
       [] c = "Backend" -> <<"Backend", "Database">>
       [] c = "Access" -> <<"Access", "Security">>
       [] c = "Other" -> <<"DevOps", "Backend">>]

\* the dictionary in its iteration order
CATEGORY_KEYWORDS ==
  << [cat |-> "Network", keywords |-> <<"vpn", "network", "firewall", "dns", "latency",
                                        "switch", "router", "connection">>],
     [cat |-> "Database", keywords |-> <<"database", "sql", "postgresql", "mysql", "mongodb",
                                         "query", "replication">>],
     [cat |-> "DevOps", keywords |-> <<"ci/cd", "pipeline", "kubernetes", "docker", "jenkins",
                                       "terraform", "deployment">>],
     [cat |-> "Security", keywords |-> <<"security", "ssl", "certificate", "vulnerability",
                                         "unauthorized", "mfa", "login">>],
     [cat |-> "Frontend", keywords |-> <<"frontend", "website", "css", "javascript", "mobile",
                                         "browser", "ui">>],
     [cat |-> "Backend", keywords |-> <<"api", "backend", "server", "endpoint", "payment",
                                        "email", "session">>],
     [cat |-> "Access", keywords |-> <<"access", "permission", "credentials", "password",
                                       "account", "privileges">>],
     [cat |-> "Other", keywords |-> <<"printer", "laptop", "license", "inquiry", "policy">>] >>

PRIORITY_KEYWORDS ==
  << [pri |-> "High", keywords |-> <<"critical", "down", "outage", "urgent", "production",
                                     "security", "vulnerability">>],
     [pri |-> "Medium", keywords |-> <<"slow", "intermittent", "warning", "issue", "problem">>],
     [pri |-> "Low", keywords |-> <<"request", "inquiry", "question", "enhancement">>] >>

\* sum(1 for kw in keywords if kw in combined_text)
Matches(keywords, combined_text) ==
  Cardinality({i \in DOMAIN keywords : Contains(combined_text, keywords[i])})

\* the category loop: the first category with the strictly largest count
RECURSIVE CategoryLoop(_, _, _, _)
CategoryLoop(combined_text, i, category, max_matches) ==
  IF i > Len(CATEGORY_KEYWORDS) THEN category
  ELSE LET matches == Matches(CATEGORY_KEYWORDS[i].keywords, combined_text)
       IN IF matches > max_matches
          THEN CategoryLoop(combined_text, i + 1, CATEGORY_KEYWORDS[i].cat, matches)
          ELSE CategoryLoop(combined_text, i + 1, category, max_matches)

\* the first category with any hit, whatever the counts
MockCategory_FirstHit(combined_text) ==
  IF \E i \in DOMAIN CATEGORY_KEYWORDS : Matches(CATEGORY_KEYWORDS[i].keywords, combined_text) > 0
  THEN CATEGORY_KEYWORDS[CHOOSE i \in DOMAIN CATEGORY_KEYWORDS :
         /\ Matches(CATEGORY_KEYWORDS[i].keywords, combined_text) > 0
         /\ \A j \in 1..(i - 1) : Matches(CATEGORY_KEYWORDS[j].keywords, combined_text) = 0].cat
  ELSE "Other"

MockCategory(combined_text) == CategoryLoop(combined_text, 1, "Other", 0)

\* the priority loop: the first tier with a hit, else "Medium"
RECURSIVE PriorityLoop(_, _)
PriorityLoop(combined_text, i) ==
  IF i > Len(PRIORITY_KEYWORDS) THEN "Medium"
  ELSE IF Matches(PRIORITY_KEYWORDS[i].keywords, combined_text) > 0
       THEN PRIORITY_KEYWORDS[i].pri
       ELSE PriorityLoop(combined_text, i + 1)

\* the last tier with a hit instead of the first
MockPriority_LastTier(combined_text) ==
  IF \E i \in DOMAIN PRIORITY_KEYWORDS : Matches(PRIORITY_KEYWORDS[i].keywords, combined_text) > 0
  THEN PRIORITY_KEYWORDS[CHOOSE i \in DOMAIN PRIORITY_KEYWORDS :
         /\ Matches(PRIORITY_KEYWORDS[i].keywords, combined_text) > 0
         /\ \A j \in (i + 1)..Len(PRIORITY_KEYWORDS) :
              Matches(PRIORITY_KEYWORDS[j].keywords, combined_text) = 0].pri
  ELSE "Medium"

MockPriority(combined_text) == PriorityLoop(combined_text, 1)

\* ", ".join(items)
RECURSIVE Join(_)
Join(items) ==
  IF Len(items) = 0 THEN ""
  ELSE IF Len(items) = 1 THEN items[1]
  ELSE items[1] \o ", " \o Join(Tail(items))

\* s[:80]
First80(s) == SubSeq(s, 1, IF Len(s) < 80 THEN Len(s) ELSE 80)

\* summary[:80] on None raises TypeError
MockRaises(summary) == summary.t # "str"

_triage_with_mock(ticket, summary, description) ==
  LET combined_text == Lower(Format(summary) \o " " \o Format(description))
      category == MockCategory(combined_text)
      priority == MockPriority(combined_text)
      required_skills == CATEGORY_SKILLS[category]
      summary_text == category \o " issue: " \o First80(summary.v) \o "..."
  IN [ticket EXCEPT !.ai_category = PyStr(category),
                    !.ai_priority = PyStr(priority),
                    !.ai_skills = PyStr(Join(required_skills)),
                    !.ai_summary = PyStr(summary_text),
                    !.triage_method = PyStr("Mock Rule-Based")]

\* what the LLM call yields: ok = FALSE is a transport error or content that
\* is not a JSON object; otherwise the fields of the parsed object
LLMResult(c, p, sk, sm) ==
  [ok |-> TRUE, category |-> c, priority |-> p, required_skills |-> sk, summary |-> sm]

LLMFailure ==
  [ok |-> FALSE, category |-> PyMissing, priority |-> PyMissing,
   required_skills |-> PyMissing, summary |-> PyMissing]

LLMResults ==
  { LLMFailure,
    LLMResult(PyStr("Network"), PyStr("High"), PyList(<<"Network", "Security">>),
              PyStr("VPN is down")),
    LLMResult(PyMissing, PyMissing, PyMissing, PyMissing),
    LLMResult(PyStr("Hardware"), PyStr("Critical"), PyList(<<>>), PyStr("")),
    LLMResult(PyNone, PyNone, PyNone, PyNone),
    LLMResult(PyStr("Database"), PyStr("Low"), PyStr("SQL"), PyStr("Slow query")) }

Chars(s) == [i \in 1..Len(s) |-> Ch(s, i)]

\* ", ".join(x) raises TypeError when x is None
JoinRaises(skills) == skills.t \notin {"list", "str"}

_triage_with_openai_raises(result) ==
  \/ ~result.ok
  \/ JoinRaises(Get(result.required_skills, PyList(<<"Other">>)))

\* the fields _triage_with_openai has written when the join raises
OpenAIPartial(ticket, result) ==
  IF ~result.ok THEN ticket
  ELSE [ticket EXCEPT !.ai_category = Get(result.category, PyStr("Other")),
                      !.ai_priority = Get(result.priority, PyStr("Medium"))]

_triage_with_openai(ticket, summary, result) ==
  LET skills == Get(result.required_skills, PyList(<<"Other">>))
  IN [ticket EXCEPT !.ai_category = Get(result.category, PyStr("Other")),
                    !.ai_priority = Get(result.priority, PyStr("Medium")),
                    !.ai_skills = PyStr(Join(IF skills.t = "str" THEN Chars(skills.v)
                                             ELSE skills.v)),
                    !.ai_summary = Get(result.summary, summary),
                    !.triage_method = PyStr("OpenAI GPT-5")]

\* triage_ticket: the ticket as it is left, and whether the call raised
triage_ticket(ticket, available, result) ==
  LET is_sn == ticket.source.t = "str" /\ ticket.source.v = "ServiceNow"
      ticket_text == IF is_sn THEN Get(ticket.short_description, PyStr(""))
                     ELSE Get(ticket.summary, PyStr(""))
      full_description == Get(ticket.description, ticket_text)
      mock(t) == IF MockRaises(ticket_text) THEN [ticket |-> t, raised |-> TRUE]
                 ELSE [ticket |-> _triage_with_mock(t, ticket_text, full_description),
                       raised |-> FALSE]
  IN IF available
     THEN IF _triage_with_openai_raises(result)
          THEN mock(OpenAIPartial(ticket, result))
          ELSE [ticket |-> _triage_with_openai(ticket, ticket_text, result), raised |-> FALSE]
     ELSE mock(ticket)

\* records as the adapters and the mock generator hand them over
RawTicket(src, sd, sm, d) ==
  [source |-> PyStr(src), short_description |-> sd, summary |-> sm, description |-> d,
   ai_category |-> PyStr(""), ai_priority |-> PyStr(""), ai_skills |-> PyStr(""),
   ai_summary |-> PyStr(""), triage_method |-> PyMissing]

RawPool ==
  { RawTicket("ServiceNow", PyStr("VPN connection failing intermittently"), PyMissing, PyStr("")),
    RawTicket("Jira", PyMissing, PyStr("Production database down, urgent"), PyStr("")),
    RawTicket("Jira", PyMissing, PyStr("Hello world"), PyMissing),
    RawTicket("ServiceNow", PyNone, PyMissing, PyStr("Request for new laptop")),
    RawTicket("Jira", PyMissing, PyMissing, PyNone),
    RawTicket("ServiceNow", PyStr(""), PyMissing, PyStr("")) }

RawBatches == SeqsUpTo(RawPool, MaxTickets)

\* no assignment under way, no engineers
EngineIdle ==
  /\ engineers = <<>>
  /\ workload = <<>>
  /\ current_ticket_id = Missing
  /\ auditLog = <<>>
  /\ settings = [skill_weight |-> 60, workload_weight |-> 40, allow_overflow |-> FALSE]
  /\ pc = [s \in Sessions |-> "idle"]
  /\ tickets = [s \in Sessions |-> <<>>]
  /\ order = [s \in Sessions |-> <<>>]
  /\ pos = [s \in Sessions |-> 1]
  /\ params = [s \in Sessions |-> NoParams]
  /\ hist = [s \in Sessions |-> <<>>]
  /\ out = [s \in Sessions |-> <<>>]
  /\ results = [s \in Sessions |-> <<>>]
  /\ runs = [s \in Sessions |-> 0]

\* AITriageAgent constructed, with or without a working OpenAI client
InitTriage ==
  /\ EngineIdle
  /\ OrchIdle
  /\ FunIdle
  /\ StoreIdle
  /\ openai_available \in BOOLEAN
  /\ raw = <<>>
  /\ tpos = 1
  /\ tpc = "idle"
  /\ thist = <<>>

\* entry of batch_triage
BatchTriageEntry(batch) ==
  /\ raw' = batch
  /\ tpos' = 1
  /\ tpc' = "triaging"
  /\ thist' = <<>>
  /\ UNCHANGED openai_available

BatchTriageCall(batch) ==
  /\ tpc = "idle"
  /\ BatchTriageEntry(batch)
  /\ UNCHANGED NotTriage

\* one iteration: triage_ticket(ticket), with whatever the LLM answers
TriageTicket ==
  /\ tpc = "triaging"
  /\ tpos <= Len(raw)
  /\ \E result \in (IF openai_available THEN LLMResults ELSE {LLMFailure}) :
       LET r == triage_ticket(raw[tpos], openai_available, result)
       IN /\ raw' = [raw EXCEPT ![tpos] = r.ticket]
          /\ thist' = Append(thist,
               [original |-> raw[tpos],
                llm_error |-> openai_available /\ _triage_with_openai_raises(result),
                raised |-> r.raised])
          /\ IF r.raised
             THEN tpc' = "raised" /\ UNCHANGED tpos
             ELSE tpos' = tpos + 1 /\ UNCHANGED tpc
  /\ UNCHANGED openai_available
  /\ UNCHANGED NotTriage

\* the loop is over: return triaged_tickets
BatchTriageExit ==
  /\ tpc = "triaging"
  /\ tpos > Len(raw)
  /\ tpc' = "returned"
  /\ UNCHANGED <<openai_available, raw, tpos, thist>>

BatchTriageReturn ==
  /\ BatchTriageExit
  /\ UNCHANGED NotTriage

NextTriage ==
  \/ \E batch \in RawBatches : BatchTriageCall(batch)
  \/ TriageTicket
  \/ BatchTriageReturn

SpecTriage == InitTriage /\ [][NextTriage]_vars

\* the tickets triage_ticket has returned for
Triaged == {raw[i] : i \in 1..(tpos - 1)}

NonEmptyString(x) == x.t = "str" /\ x.v # ""

\* C8: with the rule backend no triage_ticket call raises, whatever the
\* title and description of the record are (missing, empty or null).
C8_RuleClassifierNeverFails == ~openai_available => tpc # "raised"

\* C9: after triage_ticket has returned, the five enrichment fields of the
\* ticket are non-empty strings, whichever backend wrote them.
C9_EnrichmentNonEmpty ==
  \A t \in Triaged :
    /\ NonEmptyString(t.ai_category)
    /\ NonEmptyString(t.ai_priority)
    /\ NonEmptyString(t.ai_skills)
    /\ NonEmptyString(t.ai_summary)
    /\ NonEmptyString(t.triage_method)

\* C10: after classification ai_category is one of the eight taxonomy
\* categories and ai_priority is one of High, Medium, Low.
C10_EnrichmentDomains ==
  \A t \in Triaged :
    /\ t.ai_category.t = "str" /\ t.ai_category.v \in Range(CATEGORIES)
    /\ t.ai_priority.t = "str" /\ t.ai_priority.v \in {"High", "Medium", "Low"}


\* what the rule classifier alone makes of a ticket
RuleEnrichment(ticket) == triage_ticket(ticket, FALSE, LLMFailure)

\* C11: a ticket whose LLM call raised (transport error, unparsable content,
\* or an exception while the answer is copied) ends with exactly the rule
\* classifier's enrichment and triage_method "Mock Rule-Based", and the
\* triage_ticket call returns, so the batch goes on.
C11_LLMErrorFallsBack ==
  \A i \in DOMAIN thist :
    thist[i].llm_error =>
      /\ ~thist[i].raised
      /\ ~RuleEnrichment(thist[i].original).raised
      /\ raw[i] = RuleEnrichment(thist[i].original).ticket
      /\ raw[i].triage_method = PyStr("Mock Rule-Based")


(***************************************************************************)
(* The rule classifier on its own: triage_ticket without the OpenAI        *)
(* client, on one ticket built from a title and a description              *)
(***************************************************************************)
\* words of a title: category keywords, priority keywords, keywords inside
\* longer words ("down" in "download", "ui" in "build"), and none at all
Words ==
  {"VPN", "database", "sql", "download", "security", "inquiry", "request", "slow", "build",
   "hello"}

\* " ".join(words)
RECURSIVE JoinWords(_)
JoinWords(ws) ==
  IF Len(ws) = 0 THEN ""
  ELSE IF Len(ws) = 1 THEN ws[1]
  ELSE ws[1] \o " " \o JoinWords(Tail(ws))

Titles == {JoinWords(ws) : ws \in SeqsUpTo(Words, MaxWords)}

\* the "description" field: absent, empty, or a sentence
Descriptions ==
  {PyMissing, PyStr(""), PyStr("Password reset request"), PyStr("SQL query is slow")}

\* a record of either source with its title and description
ClassifyCases ==
  {RawTicket("ServiceNow", PyStr(t), PyMissing, d) : t \in Titles, d \in Descriptions}
    \cup {RawTicket("Jira", PyMissing, PyStr(t), d) : t \in Titles, d \in Descriptions}

InitClassify ==
  /\ EngineIdle
  /\ TriageIdle
  /\ OrchIdle
  /\ StoreIdle
  /\ fin \in ClassifyCases
  /\ fout = <<>>

\* triage_ticket(ticket) with openai_available false
RuleClassify ==
  /\ fin # <<>>
  /\ fout = <<>>
  /\ fout' = triage_ticket(fin, openai_available, LLMFailure)
  /\ UNCHANGED <<fin, engineVars, triageVars, orchVars, storeVars>>

SpecClassify == InitClassify /\ [][RuleClassify]_vars

\* title and description of the record under classification; an absent
\* description stands for the title
TitleOf(ticket) ==
  IF ticket.source = PyStr("ServiceNow") THEN ticket.short_description.v ELSE ticket.summary.v
DescriptionOf(ticket) ==
  IF ticket.description.t = "missing" THEN TitleOf(ticket) ELSE ticket.description.v

\* the lowercased text title + " " + description
TextOf(ticket) == Lower(TitleOf(ticket) \o " " \o DescriptionOf(ticket))

\* number of keywords of the category at taxonomy position i found in text
Hits(i, text) == Matches(CATEGORY_KEYWORDS[i].keywords, text)

\* C24: the category is the one with the largest number of keywords found in
\* the lowercased text (each keyword counted once, as a substring), the
\* first in taxonomy order among equals, "Other" when nothing is found, and
\* ai_skills is the comma-space join of that category's skills.
C24_CategoryByKeywordCount ==
  fout # <<>> =>
    LET text == TextOf(fin)
        positions == DOMAIN CATEGORY_KEYWORDS
        category == fout.ticket.ai_category.v
    IN /\ ~fout.raised
       /\ [i \in positions |-> CATEGORY_KEYWORDS[i].cat] = CATEGORIES
       /\ IF \A i \in positions : Hits(i, text) = 0
          THEN category = "Other"
          ELSE \E i \in positions :
                 /\ category = CATEGORIES[i]
                 /\ \A j \in positions :
                      /\ Hits(j, text) <= Hits(i, text)
                      /\ j < i => Hits(j, text) < Hits(i, text)
       /\ fout.ticket.ai_skills = PyStr(Join(CATEGORY_SKILLS[category]))

\* "database VPN": one Database keyword, one Network keyword, Network first
\* in the taxonomy
C24_Witness ==
  /\ fout # <<>>
  /\ fin.source = PyStr("Jira") /\ fin.summary = PyStr("database VPN")
  /\ fin.description = PyStr("")
  /\ fout.ticket.ai_category = PyStr("Network")
  /\ fout.ticket.ai_skills = PyStr("Network, Security")

\* some keyword of the tier at position i is found in text
TierHit(i, text) ==
  \E k \in DOMAIN PRIORITY_KEYWORDS[i].keywords : Contains(text, PRIORITY_KEYWORDS[i].keywords[k])

\* C25: ai_priority is the first of High, Medium, Low with a keyword found
\* in the lowercased text, and Medium when no tier has one; a text with a
\* High and a Low keyword is High.
C25_PriorityFirstTier ==
  fout # <<>> =>
    LET text == TextOf(fin)
        priority == fout.ticket.ai_priority.v
    IN /\ ~fout.raised
       /\ [i \in DOMAIN PRIORITY_KEYWORDS |-> PRIORITY_KEYWORDS[i].pri] = <<"High", "Medium", "Low">>
       /\ IF TierHit(1, text) THEN priority = "High"
          ELSE IF TierHit(2, text) THEN priority = "Medium"
          ELSE IF TierHit(3, text) THEN priority = "Low"
          ELSE priority = "Medium"

\* "inquiry download": the Low keyword "inquiry" and the High keyword "down"
C25_Witness ==
  /\ fout # <<>>
  /\ fin.source = PyStr("ServiceNow") /\ fin.short_description = PyStr("inquiry download")
  /\ fin.description = PyStr("")
  /\ fout.ticket.ai_priority = PyStr("High")


(***************************************************************************)
(* calculate_skill_match_score on its own: one engineer, and one set of    *)
(* required skills written in the three accepted shapes                    *)
(***************************************************************************)
\* engineers with the token set their skills stand for
SkillEngineers ==
  { [engineer |-> Engineer("A", <<"Network", "Security">>, PyStr("available"), 1),
     skills |-> {"network", "security"}],
    [engineer |-> Engineer("B", <<" database ", "Backend">>, PyStr("available"), 1),
     skills |-> {"database", "backend"}],
    [engineer |-> Engineer("C", <<"Frontend">>, PyStr("available"), 1),
     skills |-> {"frontend"}],
    [engineer |-> Engineer("D", <<>>, PyStr("available"), 1),
     skills |-> {}] }

\* a token set and its writing as list, comma-separated string and bracketed string
Shapes(tokens, l, c, b) == [logical |-> tokens, inputs |-> <<l, PyStr(c), PyStr(b)>>]

SkillShapes ==
  { Shapes({"network", "security"}, PyList(<<"Network", "Security">>),
           "Network, Security", "[Network, Security]"),
    Shapes({"network", "security"}, PyList(<<" network ", "SECURITY">>),
           " network ,SECURITY ", "['Network', \"Security\"]"),
    \* a list with a padded token and the same list as str() prints it
    Shapes({"network", "security"}, PyList(<<" Network", "Security">>),
           " Network, Security", "[' Network', 'Security']"),
    Shapes({"database"}, PyList(<<"Database">>), "database", "[ 'DATABASE' ]"),
    Shapes({"database", "backend", "devops"}, PyList(<<"Database", "Backend", "DevOps">>),
           "Database,Backend,DevOps", "[\"Database\", \"Backend\", \"DevOps\"]"),
    Shapes({"frontend", "network"}, PyList(<<"Frontend", "frontend", "Network">>),
           "Frontend, FRONTEND, Network", "[Frontend,Network]"),
    Shapes({"security"}, PyList(<<"security">>), "'Security'", "[security]"),
    Shapes({"backend", "database"}, PyList(<<"Backend", " Database">>),
           "Backend , Database", "['Backend', 'Database']"),
    Shapes({"access"}, PyList(<<"Access">>), "ACCESS", "[\"access\"]"),
    Shapes({"network"}, PyList(<<"NETWORK", "">>), "network,", "[Network,]"),
    Shapes({"devops", "backend"}, PyList(<<"DevOps", "Backend">>),
           "DevOps, Backend", " [DevOps, Backend] "),
    Shapes({}, PyList(<<>>), "", "[]"),
    Shapes({}, PyList(<<"">>), ", ", "[ ]"),
    Shapes({}, PyNone, " ", "['']") }

SkillCases ==
  {[engineer |-> e.engineer, skills |-> e.skills, logical |-> sh.logical, inputs |-> sh.inputs] :
     e \in SkillEngineers, sh \in SkillShapes}

InitSkillScore ==
  /\ EngineIdle
  /\ TriageIdle
  /\ OrchIdle
  /\ StoreIdle
  /\ fin \in SkillCases
  /\ fout = <<>>

\* the score of the engineer for each of the three writings
ScoreSkills ==
  /\ fin # <<>>
  /\ fout = <<>>
  /\ fout' = [i \in DOMAIN fin.inputs |->
                calculate_skill_match_score(fin.engineer, fin.inputs[i])]
  /\ UNCHANGED <<fin, engineVars, triageVars, orchVars, storeVars>>

SpecSkillScore == InitSkillScore /\ [][ScoreSkills]_vars

RatEq(a, b) == a[1] * b[2] = b[1] * a[2]

\* C14: the list, the comma-separated string and the bracketed string of one
\* skill set give an engineer the same score.
C14_ShapesAgree ==
  fout # <<>> => \A i, j \in DOMAIN fout : RatEq(fout[i], fout[j])

Cells == {PyStr("Alice"), PyStr("Bob"), PyStr("Unassigned"), PyNone, PyStr("")}

DataFrames ==
  {[has_column |-> FALSE, assigned_engineer |-> <<>>]}
    \cup {[has_column |-> TRUE, assigned_engineer |-> col] : col \in SeqsUpTo(Cells, MaxRows)}

\* Series.fillna(value)
fillna(series, value) ==
  [i \in DOMAIN series |-> IF series[i].t = "none" THEN PyStr(value) ELSE series[i]]

\* Series.astype(str)
astype_str(series) == [i \in DOMAIN series |-> Format(series[i])]

\* the replacement of '' left out
replace_Skipped(series, old, new) == series

\* Series.replace(old, new)
replace(series, old, new) ==
  [i \in DOMAIN series |-> IF series[i] = old THEN new ELSE series[i]]

\* Series.value_counts(): each value with the number of rows holding it
value_counts(series) ==
  [x \in Range(series) |-> Cardinality({i \in DOMAIN series : series[i] = x})]

\* whether a chart is drawn, and the Engineer -> Tickets table behind it
display_workload_chart(df) ==
  IF ~df.has_column THEN [chart |-> FALSE, workload |-> <<>>]
  ELSE LET series == replace(astype_str(fillna(df.assigned_engineer, "Unassigned")),
                             "", "Unassigned")
           counts == value_counts(series)
       IN [chart |-> DOMAIN counts # {}, workload |-> counts]

InitWorkloadChart ==
  /\ EngineIdle
  /\ TriageIdle
  /\ OrchIdle
  /\ StoreIdle
  /\ fin \in DataFrames
  /\ fout = <<>>

DisplayWorkloadChart ==
  /\ fin # <<>>
  /\ fout = <<>>
  /\ fout' = display_workload_chart(fin)
  /\ UNCHANGED <<fin, engineVars, triageVars, orchVars, storeVars>>

SpecWorkloadChart == InitWorkloadChart /\ [][DisplayWorkloadChart]_vars

\* rows of the column that hold no engineer name
Blank(cell) == cell.t = "none" \/ cell.v = ""

\* C19: without the column no chart is built; with it, null and empty cells
\* are counted under "Unassigned", every name under itself, and the counts
\* sum to the number of rows.
C19_WorkloadChartCounts ==
  fout # <<>> =>
    IF ~fin.has_column THEN ~fout.chart
    ELSE LET col == fin.assigned_engineer
             rows(name) == {i \in DOMAIN col :
                              IF name = "Unassigned" THEN Blank(col[i]) \/ col[i].v = name
                              ELSE ~Blank(col[i]) /\ col[i].v = name}
         IN /\ SumOver(fout.workload, DOMAIN fout.workload) = Len(col)
            /\ "" \notin DOMAIN fout.workload
            /\ \A name \in {"Alice", "Bob", "Unassigned"} :
                 IF rows(name) = {} THEN name \notin DOMAIN fout.workload
                 ELSE name \in DOMAIN fout.workload
                        /\ fout.workload[name] = Cardinality(rows(name))
            /\ fout.chart <=> Len(col) > 0

\* the column of the repository's test: Alice, Bob, Alice, None, ''
C19_Witness ==
  /\ fout # <<>>
  /\ fin.has_column
  /\ fin.assigned_engineer = <<PyStr("Alice"), PyStr("Bob"), PyStr("Alice"), PyNone, PyStr("")>>
  /\ fout.chart
  /\ fout.workload["Alice"] = 2 /\ fout.workload["Bob"] = 1 /\ fout.workload["Unassigned"] = 2


(***************************************************************************)
(* The orchestrator: the processing block of main, fetch_tickets_from_apis *)
(* and process_tickets (triage_ai.py), for one dashboard session           *)
(***************************************************************************)
\* a ticket record as an adapter or the mock generator builds it
FetchedTicket(src, num, k, sd, sm, d) ==
  [uid |-> 0, source |-> PyStr(src), number |-> num, key |-> k,
   short_description |-> sd, summary |-> sm, description |-> d,
   ai_category |-> PyStr(""), ai_priority |-> PyStr(""), ai_skills |-> PyStr(""),
   ai_summary |-> PyStr(""), triage_method |-> PyMissing, assigned_engineer |-> Missing]

SNTicket1 ==
  FetchedTicket("ServiceNow", PyStr("INC0010001"), PyMissing,
                PyStr("VPN connection failing intermittently"), PyMissing, PyStr(""))
SNTicket2 ==
  FetchedTicket("ServiceNow", PyStr("INC0010002"), PyMissing,
                PyStr("Request for new laptop"), PyMissing, PyNone)
JiraTicket1 ==
  FetchedTicket("Jira", PyMissing, PyStr("PROJ-7"), PyMissing,
                PyStr("Production database down, urgent"), PyStr(""))

\* generate_all_tickets: mock ServiceNow tickets followed by mock Jira tickets
MockTickets ==
  << FetchedTicket("ServiceNow", PyStr("INC10000"), PyMissing,
                   PyStr("Website CSS broken on mobile"), PyMissing,
                   PyStr("Full details: Website CSS broken on mobile.")),
     FetchedTicket("Jira", PyMissing, PyStr("PROJ-1000"), PyMissing,
                   PyStr("Password reset request"), PyStr("Full details: Password reset request.")) >>

\* what an adapter does when it is called: raise, or return a list
Raises == [ok |-> FALSE, tickets |-> <<>>]
Returns(l) == [ok |-> TRUE, tickets |-> l]

ServiceNowAnswers == {Raises, Returns(<<>>), Returns(<<SNTicket1>>), Returns(<<SNTicket1, SNTicket2>>)}
JiraAnswers == {Raises, Returns(<<>>), Returns(<<JiraTicket1>>)}

\* mock data whenever some adapter failed
UseMock_OnAnyError(any_api_enabled, api_success, api_errors) ==
  ~any_api_enabled \/ api_errors # {}

\* the decision "use_mock"
UseMock(any_api_enabled, api_success, api_errors) ==
  IF ~any_api_enabled THEN TRUE
  ELSE IF api_success # {} THEN FALSE
  ELSE TRUE

\* fetch_tickets_from_apis, given what each adapter does if it is called:
\* the list returned, the adapters called, and whether mock data was used
fetch_tickets_from_apis(config, servicenow, jira) ==
  LET sn_enabled == config.servicenow
      jira_enabled == config.jira
      any_api_enabled == sn_enabled \/ jira_enabled
      sn_tickets == IF sn_enabled /\ servicenow.ok THEN servicenow.tickets ELSE <<>>
      jira_tickets == IF jira_enabled /\ jira.ok THEN jira.tickets ELSE <<>>
      all_tickets == sn_tickets \o jira_tickets
      api_success == (IF sn_enabled /\ servicenow.ok THEN {"ServiceNow"} ELSE {})
                       \cup (IF jira_enabled /\ jira.ok THEN {"Jira"} ELSE {})
      api_errors == (IF sn_enabled /\ ~servicenow.ok THEN {"ServiceNow"} ELSE {})
                      \cup (IF jira_enabled /\ ~jira.ok THEN {"Jira"} ELSE {})
      use_mock == UseMock(any_api_enabled, api_success, api_errors)
  IN [tickets |-> IF use_mock THEN MockTickets ELSE all_tickets,
      servicenow |-> IF sn_enabled
                     THEN [called |-> TRUE, ok |-> servicenow.ok, tickets |-> servicenow.tickets]
                     ELSE NotCalled,
      jira |-> IF jira_enabled
               THEN [called |-> TRUE, ok |-> jira.ok, tickets |-> jira.tickets]
               ELSE NotCalled,
      mock |-> use_mock]

\* every fetched record is an object of its own
Stamp(l) == [i \in DOMAIN l |-> [l[i] EXCEPT !.uid = i]]

\* save_tickets: nothing is written for an empty list
save_tickets(written, batch) == IF batch = <<>> THEN written ELSE Append(written, batch)

\* the test "if raw_tickets:" never taking the else branch
ShortCircuits_Never(batch) == FALSE

\* the else branch of "if raw_tickets:"
ShortCircuits(batch) == ~Truthy(PyList(batch))

CallersIdle ==
  /\ pc = [s \in Sessions |-> "idle"]
  /\ tickets = [s \in Sessions |-> <<>>]
  /\ order = [s \in Sessions |-> <<>>]
  /\ pos = [s \in Sessions |-> 1]
  /\ params = [s \in Sessions |-> NoParams]
  /\ hist = [s \in Sessions |-> <<>>]
  /\ out = [s \in Sessions |-> <<>>]
  /\ results = [s \in Sessions |-> <<>>]
  /\ runs = [s \in Sessions |-> 0]

\* a session opened on freshly initialised components; demo mode keeps the
\* OpenAI client off
InitOrchestrator ==
  /\ engineers = RosterPair
  /\ workload = ZeroWorkload(engineers)
  /\ current_ticket_id = Missing
  /\ auditLog = <<>>
  /\ settings = [skill_weight |-> 60, workload_weight |-> 40, allow_overflow |-> FALSE]
  /\ CallersIdle
  /\ TriageIdle
  /\ FunIdle
  /\ StoreIdle
  /\ cfg \in [servicenow : BOOLEAN, jira : BOOLEAN]
  /\ fetchlog = [servicenow |-> NotCalled, jira |-> NotCalled, mock |-> FALSE]
  /\ raw_tickets = <<>>
  /\ session = [has_tickets |-> FALSE, tickets |-> <<>>, refresh |-> FALSE]
  /\ files = <<>>
  /\ actions = <<>>
  /\ opc = "idle"
  /\ scriptRuns = 0

\* the last script run ended, normally or by an exception
ScriptRunOver ==
  \/ opc \in {"idle", "done", "save_failed", "log_failed"}
  \/ opc = "triage" /\ tpc = "raised"
  \/ opc = "assign" /\ pc[Caller] = "raised"

\* a script run of main that enters the processing block ('tickets' not in
\* the session state, or the "Fetch & Process Tickets" button pressed) and
\* fetches
FetchTickets ==
  /\ ScriptRunOver
  /\ scriptRuns < MaxScriptRuns
  /\ \E pressed \in BOOLEAN, servicenow \in ServiceNowAnswers, jira \in JiraAnswers :
       LET refresh == session.refresh \/ pressed
           r == fetch_tickets_from_apis(cfg, servicenow, jira)
       IN /\ ~session.has_tickets \/ refresh
          /\ session' = [session EXCEPT !.refresh = refresh]
          /\ raw_tickets' = Stamp(r.tickets)
          /\ fetchlog' = [servicenow |-> r.servicenow, jira |-> r.jira, mock |-> r.mock]
  /\ opc' = "fetched"
  /\ scriptRuns' = scriptRuns + 1
  /\ UNCHANGED <<cfg, files, actions>>
  /\ UNCHANGED <<engineVars, triageVars, funVars, storeVars>>

\* main: nothing was fetched
EmptyBatch ==
  /\ opc = "fetched"
  /\ ShortCircuits(raw_tickets)
  /\ session' = [has_tickets |-> TRUE, tickets |-> <<>>, refresh |-> FALSE]
  /\ opc' = "done"
  /\ UNCHANGED <<cfg, fetchlog, raw_tickets, files, actions, scriptRuns>>
  /\ UNCHANGED <<engineVars, triageVars, funVars, storeVars>>

\* process_tickets: batch_triage is entered
ProcessTicketsTriage ==
  /\ opc = "fetched"
  /\ ~ShortCircuits(raw_tickets)
  /\ BatchTriageEntry(raw_tickets)
  /\ opc' = "triage"
  /\ UNCHANGED <<cfg, fetchlog, raw_tickets, session, files, actions, scriptRuns>>
  /\ UNCHANGED <<engineVars, funVars, storeVars>>

\* process_tickets: batch_triage returns and assign_tickets is entered with
\* its default arguments
ProcessTicketsAssign ==
  /\ opc = "triage"
  /\ BatchTriageExit
  /\ AssignTicketsEntry(Caller, raw, 60, 40, FALSE, FALSE)
  /\ opc' = "assign"
  /\ UNCHANGED <<cfg, fetchlog, raw_tickets, session, files, actions, scriptRuns>>
  /\ UNCHANGED <<funVars, storeVars>>

\* the entry process_tickets appends to the action log
LogEntry(assigned_tickets) ==
  [action |-> "triage_and_assign", tickets_processed |-> Len(assigned_tickets),
   method |-> IF assigned_tickets # <<>>
              THEN Get(assigned_tickets[1].triage_method, PyStr("Unknown"))
              ELSE PyStr("None")]

\* process_tickets: assign_tickets returns, then save_tickets, append_log and
\* the session update of main; either write may raise
ProcessTicketsSave ==
  /\ opc = "assign"
  /\ AssignTicketsExit(Caller)
  /\ LET assigned_tickets == out'[Caller]
     IN \/ /\ files' = save_tickets(files, assigned_tickets)
           /\ actions' = Append(actions, LogEntry(assigned_tickets))
           /\ session' = [has_tickets |-> TRUE, tickets |-> assigned_tickets, refresh |-> FALSE]
           /\ opc' = "done"
        \/ \* to_parquet / to_csv raises
           /\ assigned_tickets # <<>>
           /\ opc' = "save_failed"
           /\ UNCHANGED <<files, actions, session>>
        \/ \* open() of the action log raises
           /\ files' = save_tickets(files, assigned_tickets)
           /\ opc' = "log_failed"
           /\ UNCHANGED <<actions, session>>
  /\ UNCHANGED <<cfg, fetchlog, raw_tickets, scriptRuns>>
  /\ UNCHANGED <<triageVars, funVars, storeVars>>

NextOrchestrator ==
  \/ FetchTickets
  \/ EmptyBatch
  \/ ProcessTicketsTriage
  \/ TriageTicket
  \/ ProcessTicketsAssign
  \/ AssignTicket(Caller)
  \/ ProcessTicketsSave

SpecOrchestrator == InitOrchestrator /\ [][NextOrchestrator]_vars


\* C16: when save_tickets has raised, the classified-and-assigned batch is
\* still the session's current ticket list.
C16_BatchKeptOnSaveFailure ==
  opc = "save_failed" => session.has_tickets /\ session.tickets = out[Caller]

\* C17: from an empty fetched batch the script run goes straight to an empty
\* current ticket list: nothing of the classifier, the engine (its workload
\* counters included), the ticket files or the action log changes.
C17_EmptyBatchShortCircuits ==
  [][opc = "fetched" /\ raw_tickets = <<>>
       => /\ session'.has_tickets /\ session'.tickets = <<>>
          /\ opc' = "done"
          /\ UNCHANGED <<engineVars, triageVars, files, actions>>]_vars

\* a refresh that fetches nothing, after a run that assigned and saved a batch
C17_Witness ==
  /\ opc = "done" /\ scriptRuns = 2
  /\ raw_tickets = <<>>
  /\ session.has_tickets /\ session.tickets = <<>>
  /\ TotalWorkload(workload) > 0
  /\ Len(files) = 1 /\ Len(actions) = 1

\* the tickets of the adapters that were called and returned
Succeeded(answer) == IF answer.called /\ answer.ok THEN answer.tickets ELSE <<>>

\* C18: every enabled adapter is called whatever the other one did; when one
\* of them returned, the batch is exactly the tickets of the adapters that
\* returned, without mock tickets; the mock tickets alone are the batch when
\* no adapter is enabled or every enabled adapter raised.
C18_FetchIsolatesFailures ==
  scriptRuns > 0 =>
    LET sn == fetchlog.servicenow
        jira == fetchlog.jira
    IN /\ sn.called = cfg.servicenow /\ jira.called = cfg.jira
       /\ IF (sn.called /\ sn.ok) \/ (jira.called /\ jira.ok)
          THEN /\ ~fetchlog.mock
               /\ [i \in DOMAIN raw_tickets |-> [raw_tickets[i] EXCEPT !.uid = 0]]
                    = Succeeded(sn) \o Succeeded(jira)
          ELSE /\ fetchlog.mock
               /\ [i \in DOMAIN raw_tickets |-> [raw_tickets[i] EXCEPT !.uid = 0]] = MockTickets

\* ServiceNow raised, Jira returned its ticket
C18_Witness ==
  /\ opc = "fetched"
  /\ fetchlog.servicenow.called /\ ~fetchlog.servicenow.ok
  /\ fetchlog.jira.called /\ fetchlog.jira.ok
  /\ Len(raw_tickets) = 1 /\ raw_tickets[1].key = PyStr("PROJ-7")


(***************************************************************************)
(* The ticket store (data_storage.py): save_tickets and get_latest_tickets *)
(* on the data directory, local parquet files                              *)
(***************************************************************************)
\* get_latest_tickets(limit=100)
DefaultLimit == 100

\* the characters of file names in code-point order
CharOrder ==
  <<".", "0", "1", "2", "3", "4", "5", "6", "7", "8", "9", "_",
    "a", "b", "c", "d", "e", "f", "g", "h", "i", "j", "k", "l", "m",
    "n", "o", "p", "q", "r", "s", "t", "u", "v", "w", "x", "y", "z">>

CodePoint(c) == CHOOSE i \in DOMAIN CharOrder : CharOrder[i] = c

\* a < b on str, as sorted() compares
RECURSIVE StrLess(_, _)
StrLess(a, b) ==
  IF b = "" THEN FALSE
  ELSE IF a = "" THEN TRUE
  ELSE IF Ch(a, 1) = Ch(b, 1) THEN StrLess(SubSeq(a, 2, Len(a)), SubSeq(b, 2, Len(b)))
  ELSE CodePoint(Ch(a, 1)) < CodePoint(Ch(b, 1))

\* f.startswith(prefix)
StartsWith(f, prefix) == Len(f) >= Len(prefix) /\ SubSeq(f, 1, Len(prefix)) = prefix

Digits == <<"0", "1", "2", "3", "4", "5", "6", "7", "8", "9">>

\* datetime.now().strftime("%Y%m%d_%H%M%S") at second c
Timestamp(c) == "20261101_0900" \o Digits[(c \div 10) + 1] \o Digits[(c % 10) + 1]

\* the filename argument: absent, or a name of the caller's
NoFilename == ""
CallerFilenames == {"tickets_overflow_test", "test_tickets", "tickets_20251231_235959"}

\* a batch of n tickets, the tag telling the batches apart
Batch(n, tag) == [i \in 1..n |-> [batch |-> tag, row |-> i]]

\* batch sizes: none, a few, one more than the default limit
BatchSizes == {0, 2, DefaultLimit + 1}

\* the file save_tickets writes
SavedFile(filename, now) ==
  (IF filename = NoFilename THEN "tickets_" \o Timestamp(now) ELSE filename) \o ".parquet"

\* df.to_parquet(filepath): the file is created or replaced
WriteFile(dir, f, rows) ==
  [g \in DOMAIN dir \cup {f} |-> IF g = f THEN rows ELSE dir[g]]

\* [f for f in os.listdir("data") if f.startswith("tickets_")]
TicketFiles(dir) == {f \in DOMAIN dir : StartsWith(f, "tickets_")}

\* sorted(files)[-1]
LastSorted(fs) == CHOOSE f \in fs : \A g \in fs : g = f \/ StrLess(g, f)

\* load_tickets() without a filename
load_tickets(dir) ==
  IF TicketFiles(dir) = {} THEN <<>> ELSE dir[LastSorted(TicketFiles(dir))]

\* tickets[-limit:] if len(tickets) > limit else tickets
get_latest_tickets(dir, limit) ==
  LET loaded == load_tickets(dir)
  IN IF Len(loaded) > limit THEN SubSeq(loaded, Len(loaded) - limit + 1, Len(loaded))
     ELSE loaded

InitStorage ==
  /\ EngineIdle
  /\ TriageIdle
  /\ OrchIdle
  /\ FunIdle
  /\ StoreIdle

\* a second passes
Tick ==
  /\ clock < MaxSaves
  /\ clock' = clock + 1
  /\ UNCHANGED <<data, saved, engineVars, triageVars, orchVars, funVars>>

\* save_tickets(tickets, filename) returning normally
SaveTickets ==
  /\ Len(saved) < MaxSaves
  /\ \E n \in BatchSizes, filename \in {NoFilename} \cup CallerFilenames :
       LET batch == Batch(n, Len(saved) + 1)
           f == SavedFile(filename, clock)
       IN IF ~Truthy(PyList(batch))
          THEN UNCHANGED <<data, saved>>
          ELSE /\ data' = WriteFile(data, f, batch)
               /\ saved' = Append(saved, [file |-> f, tickets |-> batch])
  /\ UNCHANGED <<clock, engineVars, triageVars, orchVars, funVars>>

\* get_latest_tickets() with the default limit
GetLatestTickets ==
  /\ fin' = [after |-> Len(saved)]
  /\ fout' = [tickets |-> get_latest_tickets(data, DefaultLimit)]
  /\ UNCHANGED <<storeVars, engineVars, triageVars, orchVars>>

NextStorage ==
  \/ Tick
  \/ SaveTickets
  \/ GetLatestTickets

SpecStorage == InitStorage /\ [][NextStorage]_vars

\* C27: get_latest_tickets, called after some batches were saved, returns
\* the tickets of the batch saved last, all of them and in saved order.
C27_LatestIsLastSaved ==
  fout # <<>> /\ fin.after > 0 => fout.tickets = saved[fin.after].tickets


====
